---- MODULE Spec2Model ----
(***************************************************************************)
(* Model of manifest's check orchestrator (Check.Perform) and of the       *)
(* GitHub formatter's comment reconciliation (BeforeAll / Format /         *)
(* AfterAll) together with the review host behind github.defaultClient.    *)
(*                                                                         *)
(* Strings are modelled as sequences of tokens: a token is a run of        *)
(* characters that the code never looks inside ("a", "RIGHT", "t") or one  *)
(* of the delimiters the code does look for ("<!--", "-->", " ", "\n",     *)
(* ":", "<strike>", "</strike>").                                          *)
(***************************************************************************)
EXTENDS Integers, Sequences, FiniteSets, TLC

(***************************************************************************)
(* Bounds of the model.                                                    *)
(***************************************************************************)
MaxComments == 2      \* longest Result.Comments a checker emits
MaxRuns == 3          \* consecutive invocations of `manifest check`
MaxConcurrency == 1   \* largest Configuration.Concurrency tried
MaxLine == 10         \* largest Comment.Line a fingerprint is computed for
MaxBody == 3          \* longest annotation body a resolve call is tried on
MaxResolves == 2      \* resolve calls tried on one annotation

(***************************************************************************)
(* Inputs.                                                                 *)
(***************************************************************************)
\* names (map keys of Configuration.Checkers) the configurations draw from
CheckerNames == {<<"a">>, <<"b">>}

\* values of Configuration.Concurrency tried (0 and below: no limit asked)
ConcurrencyValues == -1..MaxConcurrency

\* the Concurrency CheckCmd.Run puts in the Configuration before any flag
DefaultConcurrency == 1

SeverityInfo == "Info"
SeverityWarn == "Warn"
SeverityError == "Error"

\* manifest.Comment values the checkers of the model may emit
TopError == [File |-> <<>>, Line |-> 0, Side |-> <<>>,
             Text |-> <<"t">>, Severity |-> SeverityError]
LineWarn == [File |-> <<"f">>, Line |-> 1, Side |-> <<"RIGHT">>,
             Text |-> <<"t">>, Severity |-> SeverityWarn]
Diagnostics == {TopError, LineWarn}

\* a comment that names a file and leaves the line blank
FileOnly == [File |-> <<"f">>, Line |-> 0, Side |-> <<"RIGHT">>,
             Text |-> <<"t">>, Severity |-> SeverityInfo]

\* a comment that names a line and leaves the file blank
LineOnly == [File |-> <<>>, Line |-> 1, Side |-> <<"RIGHT">>,
             Text |-> <<"t">>, Severity |-> SeverityInfo]

SeqsUpTo(S, n) == UNION {[1..k -> S] : k \in 0..n}

\* what one checker process can produce: it fails to run / exits non-zero,
\* prints something that is not a Result, or prints a Result
Outputs ==
    {[kind |-> "runfail", Failure |-> FALSE, Comments |-> <<>>],
     [kind |-> "badjson", Failure |-> FALSE, Comments |-> <<>>]}
    \cup {[kind |-> "result", Failure |-> TRUE, Comments |-> cs] :
              cs \in {<<>>, <<TopError>>}}
    \cup {[kind |-> "result", Failure |-> FALSE, Comments |-> cs] :
              cs \in SeqsUpTo(Diagnostics, MaxComments)
                        \cup {<<FileOnly>>, <<LineOnly>>}}

\* Import.Pull.Number and Import.CurrentSha, set by PopulatePullDetails
PullNumber == 1
CurrentSha == <<"sha">>

NoOutput == [kind |-> "none", Failure |-> FALSE, Comments |-> <<>>]

\* manifest.Comment values a fingerprint is computed for: File may hold a ':',
\* Line may take two digits, Side is "LEFT", "RIGHT" or left out
Files == {<<>>, <<"f">>, <<"f", ":", "1">>}
Lines == 0..MaxLine
Sides == {<<>>, <<"LEFT">>, <<"RIGHT">>}
Locations == [File : Files, Line : Lines, Side : Sides,
              Text : {<<"t">>}, Severity : {SeverityInfo}]
Comments == [File : Files, Line : Lines, Side : Sides,
             Text : {<<"t">>, <<"u">>}, Severity : {SeverityInfo, SeverityError}]

(***************************************************************************)
(* Strings.                                                                *)
(***************************************************************************)
IsSpace(t) == t \in {" ", "\n"}

HasPrefix(s, p) == Len(s) >= Len(p) /\ SubSeq(s, 1, Len(p)) = p
HasSuffix(s, p) == Len(s) >= Len(p) /\ SubSeq(s, Len(s) - Len(p) + 1, Len(s)) = p

DigitTokens == <<"0", "1", "2", "3", "4", "5", "6", "7", "8", "9">>

\* fmt's %d of a non-negative number
RECURSIVE FormatInt(_)
FormatInt(n) ==
    IF n < 10 THEN <<DigitTokens[n + 1]>>
    ELSE FormatInt(n \div 10) \o <<DigitTokens[(n % 10) + 1]>>

\* "> " + line + "\n" for every line of strings.Split(text, "\n")
RECURSIVE QuoteLines(_)
QuoteLines(text) ==
    IF text = <<>> THEN <<"\n">>
    ELSE IF Head(text) = "\n" THEN <<"\n", "> ">> \o QuoteLines(Tail(text))
    ELSE <<Head(text)>> \o QuoteLines(Tail(text))

QuoteText(text) == <<"> ">> \o QuoteLines(text)

(***************************************************************************)
(* githubformat: fingerprints and rendering.                               *)
(***************************************************************************)
IsTopLevel(comment) == comment.File = <<>> \/ comment.Line = 0

\* variant: the side of the diff is left out of the key
fingerprint_NoSide(source, comment) ==
    IF comment.File = <<>> \/ comment.Line = 0
    THEN <<"manifest", ":">> \o source
    ELSE <<"manifest", ":">> \o source \o <<":">> \o comment.File \o <<":">>
             \o FormatInt(comment.Line)

fingerprint(source, comment) ==
    IF comment.File = <<>> \/ comment.Line = 0
    THEN <<"manifest", ":">> \o source
    ELSE <<"manifest", ":">> \o source \o <<":">> \o comment.File \o <<":">>
             \o FormatInt(comment.Line) \o <<":">> \o comment.Side

footer(source) == <<"\n", "\n", "<sub>">> \o source \o <<"</sup>">>

SeverityMarker(sev) ==
    CASE sev = SeverityError -> <<"> [!CAUTION]", "\n">>
      [] sev = SeverityWarn -> <<"> [!WARNING]", "\n">>
      [] sev = SeverityInfo -> <<"> [!TIP]", "\n">>
      [] OTHER -> <<>>

\* the part of a message Format builds for every unmatched comment
MessageHead(source, comment) ==
    <<"<!--", " ">> \o fingerprint(source, comment) \o <<" ", "-->", "\n", "\n">>
        \o SeverityMarker(comment.Severity) \o QuoteText(comment.Text)

\* NewFileComment.Text of a line comment
FileCommentText(source, comment) == MessageHead(source, comment) \o footer(source)

\* what one top-level comment adds to topLevelmessage
TopLevelPart(source, comment) == MessageHead(source, comment) \o <<"\n", "\n">>

(***************************************************************************)
(* githubformat: fingerprintRegex, <!--\s*(manifest:.*?)\s*-->, and its    *)
(* FindAllStringSubmatch over a body.                                      *)
(***************************************************************************)
\* first position at or after i that holds no white space
RECURSIVE SkipSpace(_, _)
SkipSpace(s, i) ==
    IF i <= Len(s) /\ IsSpace(s[i]) THEN SkipSpace(s, i + 1) ELSE i

\* variant: the expression without the \s* in front of the closing -->
ClosesAt_NoSpace(s, k) == k <= Len(s) /\ s[k] = "-->"

\* does \s*--> match at position k
ClosesAt(s, k) == SkipSpace(s, k) <= Len(s) /\ s[SkipSpace(s, k)] = "-->"

\* .*? : the first position k >= from at which \s*--> matches, reached over
\* characters other than a newline; 0 when there is none
RECURSIVE LazyEnd(_, _)
LazyEnd(s, k) ==
    IF ClosesAt(s, k) THEN k
    ELSE IF k <= Len(s) /\ s[k] # "\n" THEN LazyEnd(s, k + 1)
    ELSE 0

\* the match of the expression that starts exactly at position i, if any
MatchAt(s, i) ==
    IF s[i] # "<!--" THEN [ok |-> FALSE, capture |-> <<>>, next |-> i + 1]
    ELSE LET j == SkipSpace(s, i + 1) IN
         IF ~(j + 1 <= Len(s) /\ s[j] = "manifest" /\ s[j + 1] = ":")
         THEN [ok |-> FALSE, capture |-> <<>>, next |-> i + 1]
         ELSE LET k == LazyEnd(s, j + 2) IN
              IF k = 0 THEN [ok |-> FALSE, capture |-> <<>>, next |-> i + 1]
              ELSE [ok |-> TRUE, capture |-> SubSeq(s, j, k - 1),
                    next |-> SkipSpace(s, k) + 1]

\* the first submatch of every successive non-overlapping match
RECURSIVE FindAllFrom(_, _)
FindAllFrom(s, i) ==
    IF i > Len(s) THEN <<>>
    ELSE LET m == MatchAt(s, i) IN
         IF m.ok THEN <<m.capture>> \o FindAllFrom(s, m.next)
         ELSE FindAllFrom(s, i + 1)

FindAllFingerprints(body) == FindAllFrom(body, 1)

(***************************************************************************)
(* github.defaultClient: the review host.                                  *)
(***************************************************************************)
ReviewComment == 0
FileComment == 1

\* fetchComments: the bodies stored on the host become github.Comment values
\* of the asked type, all of them stale
fetchComments(stored, ct) ==
    [i \in 1..Len(stored) |->
        [Body |-> stored[i], Id |-> i, Type |-> ct, Stale |-> TRUE]]

\* variant: the body is wrapped whatever it looks like
StruckBody_Always(body) == <<"<strike>">> \o body \o <<"</strike>">>

\* the body ResolveComment / ResolveFileComment send in their PATCH
StruckBody(body) ==
    IF ~HasPrefix(body, <<"<strike>">>) /\ ~HasSuffix(body, <<"</strike>">>)
    THEN <<"<strike>">> \o body \o <<"</strike>">>
    ELSE body

(***************************************************************************)
(* githubformat.Formatter: the index existingComments, a map from          *)
(* fingerprint to github.Comment, as a function on the set of its keys.    *)
(***************************************************************************)
EmptyMap == [x \in {} |-> x]

MapPut(m, k, v) == [x \in DOMAIN m \cup {k} |-> IF x = k THEN v ELSE m[x]]

\* f.existingComments[fingerprint[1]] = comment, for every match in the body
RECURSIVE PutAll(_, _, _)
PutAll(m, fps, comment) ==
    IF fps = <<>> THEN m
    ELSE PutAll(MapPut(m, Head(fps), comment), Tail(fps), comment)

\* BeforeAll's first loop, over the comments of the thread
RECURSIVE IndexThreadComments(_, _)
IndexThreadComments(m, comments) ==
    IF comments = <<>> THEN m
    ELSE IF HasPrefix(Head(comments).Body, <<"<strike>">>)
         THEN IndexThreadComments(m, Tail(comments))
         ELSE IndexThreadComments(
                  PutAll(m, FindAllFingerprints(Head(comments).Body), Head(comments)),
                  Tail(comments))

\* BeforeAll's second loop, over the review (line) comments
RECURSIVE IndexReviewComments(_, _)
IndexReviewComments(m, comments) ==
    IF comments = <<>> THEN m
    ELSE IndexReviewComments(
             PutAll(m, FindAllFingerprints(Head(comments).Body), Head(comments)),
             Tail(comments))

\* variant: a matched entry is taken out of the index
MarkNotStale_Delete(m, fp) == [k \in DOMAIN m \ {fp} |-> m[k]]

\* Format, line 101-104: `ec, ok := f.existingComments[fingerprint]` copies the
\* github.Comment out of the map (the map holds values, not pointers), so
\* `ec.Stale = false` changes the copy and the map keeps its entry as it was
MarkNotStale(m, fp) ==
    LET ec == [m[fp] EXCEPT !.Stale = FALSE] IN m

(***************************************************************************)
(* State.                                                                  *)
(***************************************************************************)
VARIABLES
    hostThread,        \* review host: bodies of the thread (issue) comments, by id
    hostReview,        \* review host: bodies of the review (line) comments, by id
    config,            \* Configuration: Concurrency and the names in Checkers
    run,               \* which invocation of the check command this is
    pc,                \* where Perform is: start, running, deferred, returned
    ret,               \* what Perform returns
    existingComments,  \* Formatter.existingComments
    task,              \* where each checker's goroutine is
    out,               \* what each checker's process produced
    pos,               \* Format: index of the next comment of the Result
    topLevelmessage,   \* Format: the top-level message built so far
    multiErr,          \* multierror.Error.errors
    hasCheckErrors,    \* Perform's flag
    flagRead,          \* what each goroutine read from the flag at line 128
    launched,          \* history: processes started per checker
    formatCalls,       \* history: Format calls per checker
    newCalls,          \* history: Comment / FileComment calls of this run
    resolveCalls,      \* history: resolve calls of this run
    afterAllCalls,     \* history: AfterAll calls of this run
    postedFps,         \* history: annotations posted in this run, per fingerprint
    beforeAllErr,      \* history: the call that made BeforeAll fail, if any
    formatErr,         \* history: did the Format call of a checker return an error
    calls,             \* history: the client calls each Format call made, in order
    prev,              \* history: the previous run
    exitCode,          \* the exit status of the check command, once it has exited
    args,              \* inputs of a function applied on its own
    value,             \* what the function returned
    Import,            \* Check.Import, the value behind the pointer every hook gets
    importJSON,        \* Perform's local importJSON
    stdin              \* history: the bytes each checker's process was given

vars == <<hostThread, hostReview, config, run, pc, ret, existingComments,
          task, out, pos, topLevelmessage, flagRead, multiErr, hasCheckErrors,
          launched, formatCalls, newCalls, resolveCalls, afterAllCalls, postedFps, beforeAllErr,
          formatErr, calls, prev, exitCode, args, value, Import, importJSON,
          stdin>>

hostVars == <<hostThread, hostReview>>
taskVars == <<task, out, pos, topLevelmessage, flagRead>>
histVars == <<launched, formatCalls, newCalls, resolveCalls, afterAllCalls, postedFps,
              beforeAllErr, formatErr, calls>>
pureVars == <<args, value>>
importVars == <<Import, importJSON, stdin>>

\* the Import of the run, as NewCheck and PopulatePullDetails leave it
TheImport == [Number |-> PullNumber, CurrentSha |-> CurrentSha]

\* Check.ImportJSON: json.Marshal of the Import
ImportJSON(imp) ==
    <<"{", "currentSha", ":">> \o imp.CurrentSha
        \o <<",", "number", ":">> \o FormatInt(imp.Number) \o <<"}">>

NoJSON == <<>>

\* variant: every checker is given input of its own
Stdin_PerChecker(json, name) == json \o name

\* line 106: cmd.Stdin = bytes.NewReader(importJSON), a reader over the one
\* slice the closures of all goroutines share
Stdin(json, name) == json

NoExit == -1       \* the command has not exited yet
NoArgs == <<>>
NoValue == <<>>

NoRun == [ran |-> FALSE, out |-> <<>>, index |-> EmptyMap,
          multiErr |-> <<>>, resolveCalls |-> {}, ret |-> "none", postedFps |-> EmptyMap]

\* bodies that earlier runs may have left on the host
InitialThreads == {<<>>, <<TopLevelPart(<<"a">>, TopError) \o footer(<<"a">>)>>}
InitialReviews == {<<>>, <<FileCommentText(<<"a">>, LineWarn)>>}

\* a thread comment someone edited by hand: the comments of checkers a and b
\* pasted into one, so that the body carries the markers of both
HandEdited ==
    TopLevelPart(<<"a">>, TopError) \o TopLevelPart(<<"b">>, TopError) \o footer(<<"a">>)

\* the per-run state of a fresh process: New() and the locals of Perform
FreshRun ==
    /\ pc = "start"
    /\ ret = "none"
    /\ existingComments = EmptyMap
    /\ task = [c \in config.Checkers |-> "unstarted"]
    /\ out = [c \in config.Checkers |-> NoOutput]
    /\ pos = [c \in config.Checkers |-> 0]
    /\ topLevelmessage = [c \in config.Checkers |-> <<>>]
    /\ multiErr = <<>>
    /\ hasCheckErrors = FALSE
    /\ flagRead = [c \in config.Checkers |-> FALSE]
    /\ launched = [c \in config.Checkers |-> 0]
    /\ formatCalls = [c \in config.Checkers |-> 0]
    /\ newCalls = 0
    /\ resolveCalls = {}
    /\ afterAllCalls = 0
    /\ postedFps = EmptyMap
    /\ beforeAllErr = "none"
    /\ formatErr = [c \in config.Checkers |-> FALSE]
    /\ calls = [c \in config.Checkers |-> <<>>]
    /\ exitCode = NoExit
    /\ Import = TheImport
    /\ importJSON = NoJSON
    /\ stdin = [c \in config.Checkers |-> NoJSON]

\* one invocation with every checker configured
Init ==
    /\ hostThread \in InitialThreads \cup {<<HandEdited>>}
    /\ hostReview \in InitialReviews
    /\ config \in [Concurrency : ConcurrencyValues, Checkers : {CheckerNames}]
    /\ run = 1
    /\ prev = NoRun
    /\ args = NoArgs
    /\ value = NoValue
    /\ FreshRun

\* consecutive invocations with one checker configured and the concurrency
\* CheckCmd.Run starts from
InitRuns ==
    /\ hostThread \in InitialThreads
    /\ hostReview \in InitialReviews
    /\ config \in [Concurrency : {DefaultConcurrency}, Checkers : {{<<"a">>}}]
    /\ run = 1
    /\ prev = NoRun
    /\ args = NoArgs
    /\ value = NoValue
    /\ FreshRun

(***************************************************************************)
(* Check.Perform                                                           *)
(***************************************************************************)
\* variant: an append that does not hold the lock and writes over the slice
\* another goroutine has just grown
Add_Unlocked(errs, err) == <<err>>

\* multiErr.Add, under the mutex of the collection
Add(errs, err) == Append(errs, err)

\* variant: the first recorded failure cancels the context
ctxErr_AfterFailure(errs) == errs # <<>>

\* ctx.Err() != nil: ctx comes from errgroup.WithContext, and is cancelled
\* only when a function passed to g.Go fails or g.Wait returns; Perform calls
\* neither, so the context is never cancelled
ctxErr(errs) == FALSE

\* variant: the limit as g.Go would apply it, where a limit of zero lets no
\* goroutine start
MayStart_Limited(limit, inFlight) == limit < 0 \/ inFlight < limit

\* the goroutines are started with `go`, not with g.Go: the limit given to
\* g.SetLimit is never consulted and nothing waits for a free slot
MayStart(limit, inFlight) == TRUE

\* variant: every severity that emphasizes the message counts as a finding
HasErrorSeverity_WarnToo(comments) ==
    \E i \in 1..Len(comments) : comments[i].Severity # SeverityInfo

\* lines 129-134: the scan of a Result's comments
HasErrorSeverity(comments) ==
    \E i \in 1..Len(comments) : comments[i].Severity = SeverityError

\* variant: the findings flag is looked at before the error collection
Outcome_FindingsFirst(errs, flag) ==
    IF flag THEN "ErrCheckReportedError"
    ELSE IF errs = <<>> THEN "nil" ELSE "multiError"

\* variant: findings count only in a run that posted an annotation
Outcome_PostedOnly(errs, flag) ==
    IF errs = <<>>
    THEN IF flag /\ newCalls > 0 THEN "ErrCheckReportedError" ELSE "nil"
    ELSE "multiError"

\* lines 146-154
Outcome(errs, flag) ==
    IF errs = <<>>
    THEN IF flag THEN "ErrCheckReportedError" ELSE "nil"
    ELSE "multiError"

InFlight == {c \in config.Checkers : task[c] = "process"}

\* variant: the error of BeforeAll does not stop Perform
AfterHook_Ignored(err) == "running"

\* variant: the defer of AfterAll is in place before BeforeAll is called
AfterHook_DeferFirst(err) == IF err # "none" THEN "deferred" ELSE "running"

\* lines 82-85: where Perform goes once BeforeAll has returned
AfterHook(err) == IF err # "none" THEN "returned" ELSE "running"

\* lines 81-89 and the loop at 96-142 that starts one goroutine per checker
BeforeAll ==
    /\ pc = "start"
    /\ importJSON' = ImportJSON(Import)
    /\ \E failure \in {"none", "Comments", "ReviewComments"} :
         LET afterThread == IndexThreadComments(existingComments,
                                fetchComments(hostThread, ReviewComment))
             afterReview == IndexReviewComments(afterThread,
                                fetchComments(hostReview, FileComment))
         IN /\ beforeAllErr' = failure
            /\ existingComments' = CASE failure = "Comments" -> existingComments
                                      [] failure = "ReviewComments" -> afterThread
                                      [] OTHER -> afterReview
            /\ ret' = IF failure # "none" THEN "beforeAllFailed" ELSE ret
            /\ pc' = AfterHook(failure)
            /\ task' = IF AfterHook(failure) = "running"
                       THEN [c \in config.Checkers |-> "spawned"]
                       ELSE task
    /\ UNCHANGED <<hostVars, config, run, out, pos, topLevelmessage, flagRead,
                   multiErr, hasCheckErrors, launched, formatCalls, newCalls, resolveCalls,
                   afterAllCalls, postedFps, formatErr, calls, prev, exitCode,
                   pureVars, Import, stdin>>

\* lines 101-107: the goroutine of checker c starts the checker's process
Launch(c) ==
    /\ pc = "running"
    /\ task[c] = "spawned"
    /\ MayStart(config.Concurrency, Cardinality(InFlight))
    /\ IF ctxErr(multiErr)
       THEN /\ task' = [task EXCEPT ![c] = "done"]
            /\ UNCHANGED <<launched, stdin>>
       ELSE /\ task' = [task EXCEPT ![c] = "process"]
            /\ launched' = [launched EXCEPT ![c] = @ + 1]
            /\ stdin' = [stdin EXCEPT ![c] = Stdin(importJSON, c)]
    /\ UNCHANGED <<hostVars, config, run, pc, ret, existingComments, out, pos,
                   topLevelmessage, flagRead, multiErr, hasCheckErrors, formatCalls,
                   newCalls,
                   resolveCalls, afterAllCalls, postedFps, beforeAllErr, formatErr,
                   calls, prev, exitCode, pureVars, Import, importJSON>>

\* the values an unsynchronised read of the flag can return: the flag is
\* written by the other goroutines without a lock, so the read may also
\* miss a write and see the initial false
RacyRead(flag) == {flag, FALSE}

\* lines 107-128: the process ends; its output is parsed and classified, and
\* the goroutine of a Result without failure reads the flag
Exit(c) ==
    /\ task[c] = "process"
    /\ \E o \in Outputs :
         /\ out' = [out EXCEPT ![c] = o]
         /\ CASE o.kind = "runfail" ->
                   /\ multiErr' = Add(multiErr, [kind |-> "run", name |-> c, by |-> c])
                   /\ task' = [task EXCEPT ![c] = "done"]
                   /\ UNCHANGED flagRead
              [] o.kind = "badjson" ->
                   /\ multiErr' = Add(multiErr, [kind |-> "parse", name |-> <<>>, by |-> c])
                   /\ task' = [task EXCEPT ![c] = "done"]
                   /\ UNCHANGED flagRead
              [] o.kind = "result" /\ o.Failure ->
                   /\ multiErr' = Add(multiErr, [kind |-> "failure", name |-> c, by |-> c])
                   /\ task' = [task EXCEPT ![c] = "done"]
                   /\ UNCHANGED flagRead
              [] OTHER ->
                   /\ \E seen \in RacyRead(hasCheckErrors) :
                        flagRead' = [flagRead EXCEPT ![c] = seen]
                   /\ task' = [task EXCEPT ![c] = "scan"]
                   /\ UNCHANGED multiErr
    /\ UNCHANGED <<hostVars, config, run, pc, ret, existingComments, pos,
                   topLevelmessage, hasCheckErrors, launched, formatCalls, newCalls,
                   resolveCalls, afterAllCalls, postedFps, beforeAllErr, formatErr,
                   calls, prev, exitCode, pureVars,
                   importVars>>

\* lines 128-137: the scan of the comments and the write of the flag, neither
\* under a lock, and then the call of Format
Scan(c) ==
    /\ task[c] = "scan"
    /\ hasCheckErrors' = IF ~flagRead[c] /\ HasErrorSeverity(out[c].Comments)
                         THEN TRUE
                         ELSE hasCheckErrors
    /\ flagRead' = [flagRead EXCEPT ![c] = FALSE]
    /\ task' = [task EXCEPT ![c] = "format"]
    /\ formatCalls' = [formatCalls EXCEPT ![c] = @ + 1]
    /\ pos' = [pos EXCEPT ![c] = 1]
    /\ UNCHANGED <<hostVars, config, run, pc, ret, existingComments, out,
                   topLevelmessage, multiErr, launched, newCalls, resolveCalls,
                   afterAllCalls, postedFps, beforeAllErr, formatErr, calls, prev,
                   exitCode, pureVars,
                   importVars>>

(***************************************************************************)
(* githubformat.Formatter.Format, one comment of the Result at a time, and *)
(* the return of the goroutine that called it (Perform, lines 137-140).    *)
(***************************************************************************)
\* history: one more annotation posted for each of the fingerprints
Count(counts, fps) ==
    [x \in DOMAIN counts \cup fps |->
        (IF x \in DOMAIN counts THEN counts[x] ELSE 0) + (IF x \in fps THEN 1 ELSE 0)]

Range(s) == {s[i] : i \in 1..Len(s)}

\* line 101: is the fingerprint a key of the index
Matches(m, fp) == fp \in DOMAIN m

\* variant: the side of the diff is not copied into the request
NewFileComment_NoSide(c, comment, at) ==
    [call |-> "FileComment", at |-> at, Sha |-> CurrentSha, Number |-> PullNumber,
     File |-> comment.File, Line |-> comment.Line, Side |-> <<>>,
     Text |-> FileCommentText(c, comment)]

\* github.NewFileComment as Format fills it in (lines 129-136); `at` is the
\* position in Result.Comments the call was made for
NewFileComment(c, comment, at) ==
    [call |-> "FileComment", at |-> at, Sha |-> CurrentSha, Number |-> PullNumber,
     File |-> comment.File, Line |-> comment.Line, Side |-> comment.Side,
     Text |-> FileCommentText(c, comment)]

\* the arguments of f.client.Comment (line 155), made after the loop
NewComment(body, at) ==
    [call |-> "Comment", at |-> at, Sha |-> <<>>, Number |-> PullNumber,
     File |-> <<>>, Line |-> 0, Side |-> <<>>, Text |-> body]

\* variant: a comment goes to its file as soon as it names one
IsFileComment_FileAlone(comment) == comment.File # <<>>

\* line 120: is the comment posted on a line of a file
IsFileComment(comment) == comment.File # <<>> /\ comment.Line # 0

\* variant: Format goes on after a FileComment call that failed
ReturnErr_GoesOn(tasks, c) == tasks

\* lines 137-139: `return err` ends the Format call, and with it the goroutine
\* (inspection.go, lines 137-140)
ReturnErr(tasks, c) == [tasks EXCEPT ![c] = "done"]

\* lines 99-150, for the comment at pos[c]
FormatComment(c) ==
    /\ task[c] = "format"
    /\ pos[c] <= Len(out[c].Comments)
    /\ LET comment == out[c].Comments[pos[c]]
           fp == fingerprint(c, comment)
       IN IF Matches(existingComments, fp)
          THEN /\ existingComments' = MarkNotStale(existingComments, fp)
               /\ pos' = [pos EXCEPT ![c] = @ + 1]
               /\ UNCHANGED <<hostVars, task, topLevelmessage, multiErr, newCalls,
                               postedFps, formatErr, calls>>
          ELSE IF IsFileComment(comment)
          THEN \* f.client.FileComment(c)
               /\ newCalls' = newCalls + 1
               /\ calls' = [calls EXCEPT
                               ![c] = Append(@, NewFileComment(c, comment, pos[c]))]
               /\ \E posted \in BOOLEAN :
                    IF posted
                    THEN /\ hostReview' = Append(hostReview, FileCommentText(c, comment))
                         /\ postedFps' = Count(postedFps, {fp})
                         /\ pos' = [pos EXCEPT ![c] = @ + 1]
                         /\ UNCHANGED <<task, multiErr, formatErr>>
                    ELSE /\ multiErr' = Add(multiErr,
                                [kind |-> "format", name |-> <<>>, by |-> c])
                         /\ formatErr' = [formatErr EXCEPT ![c] = TRUE]
                         /\ task' = ReturnErr(task, c)
                         /\ UNCHANGED <<hostReview, pos, postedFps>>
               /\ UNCHANGED <<hostThread, existingComments, topLevelmessage>>
          ELSE /\ topLevelmessage' =
                      [topLevelmessage EXCEPT ![c] = @ \o TopLevelPart(c, comment)]
               /\ pos' = [pos EXCEPT ![c] = @ + 1]
               /\ UNCHANGED <<hostVars, existingComments, task, multiErr, newCalls,
                               postedFps, formatErr, calls>>
    /\ UNCHANGED <<config, run, pc, ret, out, flagRead, hasCheckErrors, launched,
                   formatCalls, resolveCalls, afterAllCalls, beforeAllErr, prev,
                   exitCode, pureVars,
                   importVars>>

\* lines 152-162, after the last comment; cliFormatter only prints the Result
\* and its Format is taken to return nil
FormatFinish(c) ==
    /\ task[c] = "format"
    /\ pos[c] > Len(out[c].Comments)
    /\ IF Len(topLevelmessage[c]) > 0
       THEN \* f.client.Comment(i.Pull.Number, topLevelmessage.String())
            /\ newCalls' = newCalls + 1
            /\ calls' = [calls EXCEPT
                            ![c] = Append(@, NewComment(topLevelmessage[c] \o footer(c),
                                                        pos[c]))]
            /\ \E posted \in BOOLEAN :
                 IF posted
                 THEN /\ hostThread' = Append(hostThread, topLevelmessage[c] \o footer(c))
                      /\ postedFps' = Count(postedFps,
                             Range(FindAllFingerprints(topLevelmessage[c] \o footer(c))))
                      /\ UNCHANGED <<multiErr, formatErr>>
                 ELSE /\ multiErr' = Add(multiErr,
                             [kind |-> "format", name |-> <<>>, by |-> c])
                      /\ formatErr' = [formatErr EXCEPT ![c] = TRUE]
                      /\ UNCHANGED <<hostThread, postedFps>>
       ELSE UNCHANGED <<hostThread, multiErr, newCalls, postedFps, formatErr, calls>>
    /\ task' = [task EXCEPT ![c] = "done"]
    /\ UNCHANGED <<hostReview, config, run, pc, ret, existingComments, out, pos,
                   topLevelmessage, flagRead, hasCheckErrors, launched, formatCalls,
                   resolveCalls, afterAllCalls, beforeAllErr, prev, exitCode,
                   pureVars,
                   importVars>>

(***************************************************************************)
(* Perform, lines 144-154: wg.Wait() and the value to return.              *)
(***************************************************************************)
\* variant: the wait ends with the first goroutine that is done
AllDone_First == \E c \in config.Checkers : task[c] = "done"

AllDone == \A c \in config.Checkers : task[c] = "done"

WaitReturn ==
    /\ pc = "running"
    /\ AllDone
    /\ ret' = Outcome(multiErr, hasCheckErrors)
    /\ pc' = "deferred"
    /\ UNCHANGED <<hostVars, config, run, existingComments, taskVars, multiErr,
                   hasCheckErrors, histVars, prev, exitCode, pureVars,
                   importVars>>

(***************************************************************************)
(* githubformat.Formatter.AfterAll, run by Perform's defer.                *)
(***************************************************************************)
\* line 81-84: the keys whose comment AfterAll goes on to resolve
StaleKeys(m) == {k \in DOMAIN m : m[k].Stale}

\* variant: every comment is resolved as a thread comment
ResolveCall_AlwaysThread(comment) == "ResolveComment"

\* lines 86-90: which call resolves a comment
ResolveCall(comment) ==
    IF comment.Type = FileComment THEN "ResolveFileComment" ELSE "ResolveComment"

\* the bodies of one kind on the host after the resolve calls that got through
Resolved(stored, m, keys, call) ==
    [i \in 1..Len(stored) |->
        IF \E k \in keys : ResolveCall(m[k]) = call /\ m[k].Id = i
        THEN StruckBody(m[CHOOSE k \in keys : ResolveCall(m[k]) = call /\ m[k].Id = i].Body)
        ELSE stored[i]]

\* variant: a resolve call that failed is added to the error collection
DeferredErr_Added(errs, failed) ==
    IF failed = {} THEN errs
    ELSE Append(errs, [kind |-> "resolve", name |-> <<>>, by |-> <<>>])

\* the error collection after the post-hook: AfterAll drops the values the
\* resolve calls return (lines 86-90) and returns nil (line 93), and
\* Perform's defer drops that too (inspection.go, lines 87-88)
DeferredErr(errs, failed) == errs

AfterAll ==
    /\ pc = "deferred"
    /\ \E failed \in SUBSET StaleKeys(existingComments) :
         LET through == StaleKeys(existingComments) \ failed IN
         /\ resolveCalls' = {[key |-> k, call |-> ResolveCall(existingComments[k]),
                              Type |-> existingComments[k].Type,
                              Id |-> existingComments[k].Id,
                              through |-> k \in through] :
                                 k \in StaleKeys(existingComments)}
         /\ hostThread' = Resolved(hostThread, existingComments, through, "ResolveComment")
         /\ hostReview' = Resolved(hostReview, existingComments, through, "ResolveFileComment")
         /\ multiErr' = DeferredErr(multiErr, failed)
    /\ afterAllCalls' = afterAllCalls + 1
    /\ pc' = "returned"
    /\ UNCHANGED <<config, run, ret, existingComments, taskVars,
                   hasCheckErrors, launched, formatCalls, newCalls, postedFps,
                   beforeAllErr, formatErr, calls, prev, exitCode, pureVars,
                   importVars>>

(***************************************************************************)
(* cli.CheckCmd.Run, lines 98-118: what the command does with the value    *)
(* Perform returned. cli.Exit(message, 1) makes the process exit with      *)
(* status 1; a nil return makes it exit with status 0.                     *)
(***************************************************************************)
\* variant: the command reports success whatever Perform returned
ExitCode_AlwaysZero(err) == 0

ExitCode(err) ==
    IF err = "nil" THEN 0
    ELSE IF err = "ErrCheckReportedError" THEN 1    \* errors.Is, line 105
    ELSE IF err = "multiError" THEN 1               \* errors.As, line 110
    ELSE 0                                          \* line 118

CheckCmdRun ==
    /\ pc = "returned"
    /\ exitCode = NoExit
    /\ exitCode' = ExitCode(ret)
    /\ UNCHANGED <<hostVars, config, run, pc, ret, existingComments, taskVars,
                   multiErr, hasCheckErrors, histVars, prev, pureVars,
                   importVars>>

(***************************************************************************)
(* The check command is run again, in a new process, on the same thread.   *)
(***************************************************************************)
\* Perform is entered once more: its locals are new, the host is as it was
\* left
Reenter ==
    /\ pc = "returned"
    /\ exitCode # NoExit
    /\ run < MaxRuns
    /\ run' = run + 1
    /\ prev' = [ran |-> TRUE, out |-> out, index |-> existingComments,
                multiErr |-> multiErr, resolveCalls |-> resolveCalls, ret |-> ret,
                postedFps |-> postedFps]
    /\ pc' = "start"
    /\ ret' = "none"
    /\ task' = [c \in config.Checkers |-> "unstarted"]
    /\ out' = [c \in config.Checkers |-> NoOutput]
    /\ pos' = [c \in config.Checkers |-> 0]
    /\ topLevelmessage' = [c \in config.Checkers |-> <<>>]
    /\ multiErr' = <<>>
    /\ hasCheckErrors' = FALSE
    /\ flagRead' = [c \in config.Checkers |-> FALSE]
    /\ launched' = [c \in config.Checkers |-> 0]
    /\ formatCalls' = [c \in config.Checkers |-> 0]
    /\ newCalls' = 0
    /\ resolveCalls' = {}
    /\ afterAllCalls' = 0
    /\ postedFps' = EmptyMap
    /\ beforeAllErr' = "none"
    /\ formatErr' = [c \in config.Checkers |-> FALSE]
    /\ calls' = [c \in config.Checkers |-> <<>>]
    /\ exitCode' = NoExit
    /\ importJSON' = NoJSON
    /\ stdin' = [c \in config.Checkers |-> NoJSON]
    /\ UNCHANGED <<hostVars, config, pureVars, Import>>

\* a new process: CheckCmd.Run builds a Formatter with githubformat.New, whose
\* map is empty
NextRun ==
    /\ Reenter
    /\ existingComments' = EmptyMap

\* the same Check, and with it the same Formatter, performs again: nothing in
\* BeforeAll, Format or AfterAll empties or replaces f.existingComments
PerformAgain ==
    /\ Reenter
    /\ UNCHANGED existingComments

Next ==
    \/ BeforeAll
    \/ \E c \in config.Checkers : Launch(c)
    \/ \E c \in config.Checkers : Exit(c)
    \/ \E c \in config.Checkers : Scan(c)
    \/ \E c \in config.Checkers : FormatComment(c)
    \/ \E c \in config.Checkers : FormatFinish(c)
    \/ WaitReturn
    \/ AfterAll
    \/ CheckCmdRun

NextRuns ==
    \/ Next
    \/ NextRun

Spec == Init /\ [][Next]_vars

\* the steps that are taken once they can be: the Go scheduler runs every
\* goroutine that is ready, and the calls of the formatter and of the review
\* host are taken to return. The step that waits for a checker's process,
\* Exit, is not among them: cmd.Output has no deadline (line 77, "TODO add a
\* timout config") and the process may never end
Scheduled ==
    \/ BeforeAll
    \/ \E c \in config.Checkers : Launch(c)
    \/ \E c \in config.Checkers : Scan(c)
    \/ \E c \in config.Checkers : FormatComment(c)
    \/ \E c \in config.Checkers : FormatFinish(c)
    \/ WaitReturn
    \/ AfterAll
    \/ CheckCmdRun

\* one run under that scheduling
SpecLive == Init /\ [][Next]_vars /\ WF_vars(Scheduled)

NextReuse == Next \/ PerformAgain

\* one Check and one Formatter used for consecutive runs
SpecReuse == InitRuns /\ [][NextReuse]_vars

SpecRuns == InitRuns /\ [][NextRuns]_vars

(***************************************************************************)
(* fingerprint applied on its own to two comments of one checker.          *)
(***************************************************************************)
InitFingerprint ==
    /\ hostThread = <<>>
    /\ hostReview = <<>>
    /\ config = [Concurrency |-> DefaultConcurrency, Checkers |-> {}]
    /\ run = 1
    /\ prev = NoRun
    /\ args \in [source : CheckerNames, x : Locations, y : Comments]
    /\ value = NoValue
    /\ FreshRun

ApplyFingerprint ==
    /\ args # NoArgs
    /\ value = NoValue
    /\ value' = [x |-> fingerprint(args.source, args.x),
                 y |-> fingerprint(args.source, args.y)]
    /\ UNCHANGED <<hostVars, config, run, pc, ret, existingComments, taskVars,
                   multiErr, hasCheckErrors, histVars, prev, exitCode, args,
                   importVars>>

NextFingerprint == ApplyFingerprint

SpecFingerprint == InitFingerprint /\ [][NextFingerprint]_vars

(***************************************************************************)
(* fingerprint applied to comments of two checkers whose names, like the   *)
(* file paths, may hold a ':'.                                             *)
(***************************************************************************)
\* checker names as resolveChecks takes them from the command line: any
\* command string, `rake lint:ruby` for one
CommandNames == CheckerNames \cup {<<"a", ":", "f">>}

Paths == Files \cup {<<"1">>}

Located == [File : Paths, Line : Lines, Side : Sides,
            Text : {<<"t">>}, Severity : {SeverityInfo}]

InitInjective ==
    /\ hostThread = <<>>
    /\ hostReview = <<>>
    /\ config = [Concurrency |-> DefaultConcurrency, Checkers |-> {}]
    /\ run = 1
    /\ prev = NoRun
    /\ args \in [source1 : CommandNames, x : Located,
                  source2 : CommandNames, y : Located]
    /\ value = NoValue
    /\ FreshRun

ApplyToBoth ==
    /\ args # NoArgs
    /\ value = NoValue
    /\ value' = [x |-> fingerprint(args.source1, args.x),
                 y |-> fingerprint(args.source2, args.y)]
    /\ UNCHANGED <<hostVars, config, run, pc, ret, existingComments, taskVars,
                   multiErr, hasCheckErrors, histVars, prev, exitCode, args,
                   importVars>>

NextInjective == ApplyToBoth

SpecInjective == InitInjective /\ [][NextInjective]_vars

(***************************************************************************)
(* The body Format renders for one comment of one checker, and what        *)
(* BeforeAll's FindAllStringSubmatch finds in that body.                   *)
(***************************************************************************)
\* checker names as resolveChecks takes them from the command line: the
\* command string itself, which may end in a blank
Sources == CheckerNames \cup {<<"a", " ">>}

\* Comment.Text as a checker prints it: one line, two lines, or a line that
\* quotes a marker
Texts == {<<"t">>, <<"t", "\n", "u">>,
          <<"<!--", " ", "manifest", ":", "b", " ", "-->">>}

Rendered == [File : Files, Line : Lines, Side : Sides,
             Text : Texts, Severity : {SeverityInfo, SeverityError}]

\* the body of the annotation Format posts for a result that holds this one
\* comment
BodyOf(source, comment) ==
    IF IsFileComment(comment)
    THEN FileCommentText(source, comment)
    ELSE TopLevelPart(source, comment) \o footer(source)

InitRoundTrip ==
    /\ hostThread = <<>>
    /\ hostReview = <<>>
    /\ config = [Concurrency |-> DefaultConcurrency, Checkers |-> {}]
    /\ run = 1
    /\ prev = NoRun
    /\ args \in [source : Sources, comment : Rendered]
    /\ value = NoValue
    /\ FreshRun

RenderAndExtract ==
    /\ args # NoArgs
    /\ value = NoValue
    /\ value' = [fp |-> fingerprint(args.source, args.comment),
                 found |-> FindAllFingerprints(BodyOf(args.source, args.comment))]
    /\ UNCHANGED <<hostVars, config, run, pc, ret, existingComments, taskVars,
                   multiErr, hasCheckErrors, histVars, prev, exitCode, args,
                   importVars>>

NextRoundTrip == RenderAndExtract

SpecRoundTrip == InitRoundTrip /\ [][NextRoundTrip]_vars

(***************************************************************************)
(* defaultClient.ResolveComment and ResolveFileComment applied on their    *)
(* own, each time to the annotation as it is fetched from the host.        *)
(***************************************************************************)
\* annotation bodies: some text, with or without the tags around it
Bodies == SeqsUpTo({"<strike>", "x", "</strike>"}, MaxBody)

NotResolved == [n |-> 0, once |-> <<>>]

InitResolve ==
    /\ args \in [thread : Bodies, review : Bodies]
    /\ hostThread = <<args.thread>>
    /\ hostReview = <<args.review>>
    /\ value = [thread |-> NotResolved, review |-> NotResolved]
    /\ config = [Concurrency |-> DefaultConcurrency, Checkers |-> {}]
    /\ run = 1
    /\ prev = NoRun
    /\ FreshRun

\* history: one more resolve call got through; `once` keeps the body the
\* first call left on the host
Resolve(seen, body) ==
    [n |-> seen.n + 1, once |-> IF seen.n = 0 THEN body ELSE seen.once]

\* ResolveComment(comment), comment being one of Comments(number)
ResolveComment(id) ==
    /\ value # NoValue
    /\ value.thread.n < MaxResolves
    /\ LET comment == fetchComments(hostThread, ReviewComment)[id] IN
         /\ hostThread' = [hostThread EXCEPT ![comment.Id] = StruckBody(comment.Body)]
         /\ value' = [value EXCEPT
                          !.thread = Resolve(@, StruckBody(comment.Body))]
    /\ UNCHANGED <<hostReview, config, run, pc, ret, existingComments, taskVars,
                   multiErr, hasCheckErrors, histVars, prev, exitCode, args,
                   importVars>>

\* ResolveFileComment(comment), comment being one of ReviewComments(number)
ResolveFileComment(id) ==
    /\ value # NoValue
    /\ value.review.n < MaxResolves
    /\ LET comment == fetchComments(hostReview, FileComment)[id] IN
         /\ hostReview' = [hostReview EXCEPT ![comment.Id] = StruckBody(comment.Body)]
         /\ value' = [value EXCEPT
                          !.review = Resolve(@, StruckBody(comment.Body))]
    /\ UNCHANGED <<hostThread, config, run, pc, ret, existingComments, taskVars,
                   multiErr, hasCheckErrors, histVars, prev, exitCode, args,
                   importVars>>

NextResolve ==
    \/ \E id \in DOMAIN hostThread : ResolveComment(id)
    \/ \E id \in DOMAIN hostReview : ResolveFileComment(id)

SpecResolve == InitResolve /\ [][NextResolve]_vars

(***************************************************************************)
(* Vocabulary of the properties.                                           *)
(***************************************************************************)
\* was the output of a checker handed to Format
Handed(o) == o.kind = "result" /\ ~o.Failure

\* the fingerprints of the diagnostics handed to Format in a run
HandedFps(outs) ==
    UNION {{fingerprint(c, outs[c].Comments[i]) : i \in 1..Len(outs[c].Comments)} :
              c \in {d \in DOMAIN outs : Handed(outs[d])}}

\* has a resolve call of this run been made for the annotation
ResolveCalled(resolves, comment) ==
    \E r \in resolves : r.Type = comment.Type /\ r.Id = comment.Id

HookSucceeded == pc # "start" /\ beforeAllErr = "none"

Returned == pc = "returned"

(***************************************************************************)
(* C1: an annotation of the index whose fingerprint is that of a           *)
(* diagnostic handed to Format gets no ResolveComment / ResolveFileComment *)
(* call from AfterAll.                                                     *)
(***************************************************************************)
C1_MatchedNeverResolved ==
    \A k \in DOMAIN existingComments :
        k \in HandedFps(out) => ~ResolveCalled(resolveCalls, existingComments[k])

(***************************************************************************)
(* C2: when every diagnostic handed to Format in this run carries a        *)
(* fingerprint for which the previous run posted an annotation, this run   *)
(* makes no Comment and no FileComment call.                               *)
(***************************************************************************)
PostedByPrev == prev.ran /\ HandedFps(out) \subseteq DOMAIN prev.postedFps

C3_OnePostPerFingerprint ==
    \A fp \in DOMAIN postedFps :
        postedFps[fp] <= 1 /\ fp \notin DOMAIN existingComments

(***************************************************************************)
(* C4: once Perform has returned, every annotation of the index that no    *)
(* handed diagnostic matched has received a resolve call: the call is      *)
(* ResolveFileComment for a FileComment and ResolveComment otherwise.      *)
(***************************************************************************)
C4_StaleResolved ==
    (Returned /\ HookSucceeded) =>
        \A k \in DOMAIN existingComments :
            k \notin HandedFps(out) =>
                \E r \in resolveCalls :
                    /\ r.Type = existingComments[k].Type
                    /\ r.Id = existingComments[k].Id
                    /\ r.call = IF existingComments[k].Type = FileComment
                                THEN "ResolveFileComment"
                                ELSE "ResolveComment"

C4_Witness ==
    /\ Returned
    /\ \A c \in config.Checkers : Handed(out[c])
    /\ \E k \in DOMAIN existingComments :
         /\ k \notin HandedFps(out)
         /\ existingComments[k].Type = FileComment
         /\ \E r \in resolveCalls : r.key = k /\ r.call = "ResolveFileComment"
    /\ \E k \in DOMAIN existingComments :
         /\ k \notin HandedFps(out)
         /\ existingComments[k].Type = ReviewComment
         /\ \E r \in resolveCalls : r.key = k /\ r.call = "ResolveComment"

(***************************************************************************)
(* C5: with 0 < Concurrency < number of checkers, never more than          *)
(* Concurrency checker processes run at the same time.                     *)
(***************************************************************************)
C5_ConcurrencyBound ==
    (0 < config.Concurrency /\ config.Concurrency < Cardinality(config.Checkers)) =>
        Cardinality({c \in config.Checkers : task[c] = "process"}) <= config.Concurrency

(***************************************************************************)
(* C6: in a run whose pre-hook succeeded every checker is launched exactly *)
(* once and has finished when Perform returns, whatever the others did,    *)
(* and every Result without failure was handed to Format.                  *)
(***************************************************************************)
C6_Isolation ==
    /\ \A c \in config.Checkers : launched[c] <= 1 /\ formatCalls[c] <= 1
    /\ (HookSucceeded /\ pc \in {"deferred", "returned"}) =>
          \A c \in config.Checkers :
              /\ launched[c] = 1
              /\ task[c] = "done"
              /\ out[c] \in Outputs
              /\ Handed(out[c]) => formatCalls[c] = 1

C6_Witness ==
    /\ Returned
    /\ \E c, d \in config.Checkers :
         /\ out[c].kind = "runfail"
         /\ Handed(out[d])
         /\ out[d].Comments = <<LineWarn>>
         /\ formatCalls[d] = 1
         /\ fingerprint(d, LineWarn) \in DOMAIN postedFps
         /\ launched[c] = 1 /\ launched[d] = 1

(***************************************************************************)
(* C7: Perform returns the aggregated error whenever the error collection  *)
(* is not empty, ErrCheckReportedError only when it is empty and the flag  *)
(* is set, and nil otherwise.                                              *)
(***************************************************************************)
C7_OutcomePrecedence ==
    (HookSucceeded /\ pc \in {"deferred", "returned"}) =>
        /\ multiErr # <<>> => ret = "multiError"
        /\ (multiErr = <<>> /\ hasCheckErrors) => ret = "ErrCheckReportedError"
        /\ (multiErr = <<>> /\ ~hasCheckErrors) => ret = "nil"

C7_Witness ==
    /\ Returned
    /\ ret = "multiError"
    /\ hasCheckErrors
    /\ \E c, d \in config.Checkers :
         /\ out[c].kind = "runfail"
         /\ Handed(out[d])
         /\ HasErrorSeverity(out[d].Comments)

(***************************************************************************)
(* C8: when BeforeAll returns an error Perform returns an error wrapping   *)
(* it, and no checker process is started.                                  *)
(***************************************************************************)
C8_PreHookFailureAborts ==
    beforeAllErr # "none" =>
        /\ pc = "returned"
        /\ ret = "beforeAllFailed"
        /\ \A c \in config.Checkers :
             launched[c] = 0 /\ task[c] = "unstarted" /\ out[c] = NoOutput

C8_Witness ==
    /\ beforeAllErr = "ReviewComments"
    /\ Returned
    /\ existingComments # EmptyMap

(***************************************************************************)
(* C9: in a run whose pre-hook succeeded AfterAll is called exactly once,  *)
(* after every checker task has finished and every Format call has         *)
(* returned, also when checkers or Format calls failed.                    *)
(***************************************************************************)
C9_PostHookOrdering ==
    /\ afterAllCalls <= 1
    /\ afterAllCalls = 1 =>
          /\ HookSucceeded
          /\ \A c \in config.Checkers : task[c] = "done"
    /\ (Returned /\ HookSucceeded) => afterAllCalls = 1

C9_Witness ==
    /\ Returned
    /\ afterAllCalls = 1
    /\ \E e \in Range(multiErr) : e.kind = "format"
    /\ \E e \in Range(multiErr) : e.kind = "run"

(***************************************************************************)
(* C10: an annotation that the previous run resolved (the call got         *)
(* through) because no diagnostic carried its fingerprint gets no resolve  *)
(* call in this run when its fingerprint is still absent.                  *)
(***************************************************************************)
C10_NoReResolution ==
    prev.ran =>
        \A r \in prev.resolveCalls :
            (/\ r.key \notin HandedFps(prev.out)
             /\ r.through
             /\ Returned
             /\ r.key \notin HandedFps(out))
            => ~ResolveCalled(resolveCalls, r)

(***************************************************************************)
(* Vocabulary of the properties about errors.                              *)
(***************************************************************************)
\* Perform is past wg.Wait() in a run whose pre-hook succeeded
Waited == HookSucceeded /\ pc \in {"deferred", "returned"}

\* the entries of the error collection that the goroutine of checker c added
ErrorsBy(c) == {i \in 1..Len(multiErr) : multiErr[i].by = c}

\* the way checker c failed, "none" when it did not
FailureOf(c) ==
    CASE out[c].kind = "runfail" -> "run"
      [] out[c].kind = "badjson" -> "parse"
      [] out[c].kind = "result" /\ out[c].Failure -> "failure"
      [] formatErr[c] -> "format"
      [] OTHER -> "none"

(***************************************************************************)
(* C11: every entry of the error collection carries the name of the        *)
(* checker whose failure it reports, whatever the kind of the failure.     *)
(***************************************************************************)
C11_ErrorsNameChecker ==
    \A i \in 1..Len(multiErr) : multiErr[i].name = multiErr[i].by

(***************************************************************************)
(* C12: once wg.Wait() has returned the error collection holds exactly one *)
(* entry for every checker that failed, of the kind of its failure, and    *)
(* none for a checker that did not fail; Perform returns the aggregated    *)
(* error exactly when some checker failed.                                 *)
(***************************************************************************)
C12_NoErrorLost ==
    Waited =>
        /\ \A c \in config.Checkers :
             IF FailureOf(c) = "none"
             THEN ErrorsBy(c) = {}
             ELSE /\ Cardinality(ErrorsBy(c)) = 1
                  /\ \A i \in ErrorsBy(c) : multiErr[i].kind = FailureOf(c)
        /\ Len(multiErr) = Cardinality({c \in config.Checkers : FailureOf(c) # "none"})
        /\ ret = "multiError" <=> \E c \in config.Checkers : FailureOf(c) # "none"

\* both checkers failed, one to run and one in Format, the second after the first
C12_Witness ==
    /\ Returned
    /\ ret = "multiError"
    /\ Len(multiErr) = 2
    /\ multiErr[1].kind = "format"
    /\ multiErr[2].kind = "run"
    /\ multiErr[1].by # multiErr[2].by

(***************************************************************************)
(* C13: when the Format call of one checker returns an error, the error is *)
(* in the error collection, and every other checker is still run once and  *)
(* its Result, if it has one without failure, is handed to Format and gone *)
(* through.                                                                *)
(***************************************************************************)
C13_FormatErrorIsolated ==
    Waited =>
        \A c \in config.Checkers :
            formatErr[c] =>
                /\ \E i \in 1..Len(multiErr) :
                       multiErr[i].kind = "format" /\ multiErr[i].by = c
                /\ \A d \in config.Checkers \ {c} :
                       /\ launched[d] = 1
                       /\ out[d] \in Outputs
                       /\ Handed(out[d]) =>
                              /\ formatCalls[d] = 1
                              /\ formatErr[d] \/ pos[d] > Len(out[d].Comments)

\* the Format call of one checker failed first; the other checker's Result
\* was formatted after it and its line comment posted
C13_Witness ==
    /\ Returned
    /\ multiErr # <<>>
    /\ multiErr[1].kind = "format"
    /\ \E d \in config.Checkers \ {multiErr[1].by} :
         /\ Handed(out[d])
         /\ out[d].Comments = <<LineWarn>>
         /\ ~formatErr[d]
         /\ Len(calls[d]) = 1
         /\ fingerprint(d, LineWarn) \in DOMAIN postedFps

(***************************************************************************)
(* C14: when every checker ran, printed a Result without failure and was   *)
(* formatted without error, Perform returns ErrCheckReportedError if some  *)
(* diagnostic of some Result has severity Error and nil if none has; Info  *)
(* and Warn diagnostics alone give nil.                                    *)
(***************************************************************************)
C14_SeverityClassification ==
    (Waited /\ \A c \in config.Checkers : FailureOf(c) = "none") =>
        IF \E c \in config.Checkers : \E i \in 1..Len(out[c].Comments) :
               out[c].Comments[i].Severity = SeverityError
        THEN ret = "ErrCheckReportedError"
        ELSE ret = "nil"

\* one checker reported a Warn diagnostic, the other an Info diagnostic, both
\* were posted, and Perform returned nil
C14_Witness ==
    /\ Returned
    /\ \A c \in config.Checkers : FailureOf(c) = "none"
    /\ \E c, d \in config.Checkers :
         /\ out[c].Comments = <<LineWarn>>
         /\ out[d].Comments = <<FileOnly>>
         /\ Len(calls[c]) = 1 /\ Len(calls[d]) = 1
    /\ ret = "nil"

(***************************************************************************)
(* Vocabulary of the properties about what Format does with a diagnostic.  *)
(***************************************************************************)
\* the positions of Result.Comments the loop of Format has gone through
Processed(c) ==
    IF formatCalls[c] = 0 THEN {}
    ELSE IF task[c] = "format" THEN 1..(pos[c] - 1)
    ELSE {i \in 1..Len(out[c].Comments) : i <= pos[c]}

\* the diagnostic at position i found no annotation in the index
Unmatched(c, i) == fingerprint(c, out[c].Comments[i]) \notin DOMAIN existingComments

\* the FileComment calls Format made for the diagnostic at position i
FileCallsAt(c, i) ==
    {j \in 1..Len(calls[c]) : calls[c][j].call = "FileComment" /\ calls[c][j].at = i}

\* the Comment calls Format made
CommentCalls(c) == {j \in 1..Len(calls[c]) : calls[c][j].call = "Comment"}

\* the diagnostic went to the thread: no line comment, checker-only fingerprint
TreatedAsTopLevel(c, i) ==
    /\ FileCallsAt(c, i) = {}
    /\ fingerprint(c, out[c].Comments[i]) = <<"manifest", ":">> \o c

\* the diagnostic went to its line: a line comment, fingerprint with location
TreatedAsLineScoped(c, i) ==
    /\ FileCallsAt(c, i) # {}
    /\ fingerprint(c, out[c].Comments[i]) # <<"manifest", ":">> \o c

(***************************************************************************)
(* C15, as stated: an unmatched diagnostic that Format went through was    *)
(* treated as top-level exactly when its file is empty and its line zero.  *)
(***************************************************************************)
C15_TopLevelIffBothBlank ==
    \A c \in config.Checkers : \A i \in Processed(c) :
        Unmatched(c, i) =>
            (TreatedAsTopLevel(c, i) <=>
                (out[c].Comments[i].File = <<>> /\ out[c].Comments[i].Line = 0))

(***************************************************************************)
(* C15, amended: an unmatched diagnostic that Format went through was      *)
(* treated as top-level exactly when its file is empty or its line zero,   *)
(* and as line-scoped exactly when it has both a file and a line.          *)
(***************************************************************************)
C15_TopLevelIffEitherBlank ==
    \A c \in config.Checkers : \A i \in Processed(c) :
        Unmatched(c, i) =>
            IF out[c].Comments[i].File = <<>> \/ out[c].Comments[i].Line = 0
            THEN TreatedAsTopLevel(c, i)
            ELSE TreatedAsLineScoped(c, i)

\* one checker reported a file without a line, the other a line without a
\* file, and each Result went to the thread in one Comment call
C15_Witness ==
    /\ Returned
    /\ \E c, d \in config.Checkers :
         /\ out[c].Comments = <<FileOnly>> /\ out[d].Comments = <<LineOnly>>
         /\ Unmatched(c, 1) /\ Unmatched(d, 1)
         /\ Len(calls[c]) = 1 /\ calls[c][1].call = "Comment"
         /\ Len(calls[d]) = 1 /\ calls[d][1].call = "Comment"

(***************************************************************************)
(* C16: the fingerprints of two comments of one checker are equal when the *)
(* comments agree on file, line and side, whatever their text and          *)
(* severity; they are the checker's name alone when neither comment has    *)
(* both a file and a line; and they differ when both comments have a file  *)
(* and a line and differ in file, line or side.                            *)
(***************************************************************************)
SameLocation(x, y) == x.File = y.File /\ x.Line = y.Line /\ x.Side = y.Side

HasFileAndLine(x) == x.File # <<>> /\ x.Line # 0

C16_FingerprintDeterminism ==
    value # NoValue =>
        /\ SameLocation(args.x, args.y) => value.x = value.y
        /\ (~HasFileAndLine(args.x) /\ ~HasFileAndLine(args.y)) =>
               /\ value.x = value.y
               /\ value.x = <<"manifest", ":">> \o args.source
        /\ (HasFileAndLine(args.x) /\ HasFileAndLine(args.y)
               /\ ~SameLocation(args.x, args.y)) => value.x # value.y

\* the same text on the same side of the same file, at lines 1 and 10
C16_Witness ==
    /\ value # NoValue
    /\ args.x.File = <<"f", ":", "1">> /\ args.y.File = args.x.File
    /\ args.x.Side = <<"RIGHT">> /\ args.y.Side = args.x.Side
    /\ args.x.Text = args.y.Text
    /\ args.x.Line = 1 /\ args.y.Line = 10
    /\ value.x # value.y

(***************************************************************************)
(* C17: in one Format call every unmatched diagnostic with a file and a    *)
(* line that the loop went through got exactly one FileComment call, with  *)
(* its file, line and side, the pull number and the current SHA, and no    *)
(* other diagnostic got one; at most one Comment call is made, as the last *)
(* call and after the loop, for the pull number and with the markers of    *)
(* all unmatched top-level diagnostics in its body; a Format call that got *)
(* past the loop made the Comment call exactly when there was an unmatched *)
(* top-level diagnostic.                                                   *)
(***************************************************************************)
UnmatchedTopLevel(c) ==
    {i \in 1..Len(out[c].Comments) :
        Unmatched(c, i) /\ ~HasFileAndLine(out[c].Comments[i])}

C17_PostingShape ==
    \A c \in config.Checkers :
        /\ \A i \in Processed(c) :
             IF Unmatched(c, i) /\ HasFileAndLine(out[c].Comments[i])
             THEN /\ Cardinality(FileCallsAt(c, i)) = 1
                  /\ \A j \in FileCallsAt(c, i) :
                       /\ calls[c][j].File = out[c].Comments[i].File
                       /\ calls[c][j].Line = out[c].Comments[i].Line
                       /\ calls[c][j].Side = out[c].Comments[i].Side
                       /\ calls[c][j].Number = PullNumber
                       /\ calls[c][j].Sha = CurrentSha
             ELSE FileCallsAt(c, i) = {}
        /\ \A j \in 1..Len(calls[c]) :
             calls[c][j].call = "FileComment" => calls[c][j].at \in Processed(c)
        /\ Cardinality(CommentCalls(c)) <= 1
        /\ \A j \in CommentCalls(c) :
             /\ j = Len(calls[c])
             /\ Processed(c) = 1..Len(out[c].Comments)
             /\ calls[c][j].at = Len(out[c].Comments) + 1
             /\ calls[c][j].Number = PullNumber
             /\ UnmatchedTopLevel(c) # {}
             /\ Len(FindAllFingerprints(calls[c][j].Text)) =
                    Cardinality(UnmatchedTopLevel(c))
        /\ (formatCalls[c] = 1 /\ task[c] = "done" /\ pos[c] > Len(out[c].Comments)) =>
               (CommentCalls(c) # {} <=> UnmatchedTopLevel(c) # {})

\* a Result with a top-level and a line diagnostic, neither matched: the line
\* comment first, then the one thread comment
C17_Witness ==
    /\ Returned
    /\ \E c \in config.Checkers :
         /\ out[c].Comments = <<TopError, LineWarn>>
         /\ Handed(out[c])
         /\ Unmatched(c, 1) /\ Unmatched(c, 2)
         /\ Len(calls[c]) = 2
         /\ calls[c][1].call = "FileComment" /\ calls[c][1].at = 2
         /\ calls[c][2].call = "Comment"
         /\ ~formatErr[c]

(***************************************************************************)
(* C18: the check command exits with status 0 when Perform returned nil,   *)
(* and with a status other than 0 when Perform returned the aggregated     *)
(* error or ErrCheckReportedError.                                         *)
(***************************************************************************)
C18_ExitStatus ==
    exitCode # NoExit =>
        /\ ret = "nil" => exitCode = 0
        /\ ret \in {"multiError", "ErrCheckReportedError"} => exitCode # 0

\* every checker ran and was formatted, one diagnostic had severity Error,
\* and the command has exited with status 1
C18_Witness ==
    /\ exitCode = 1
    /\ ret = "ErrCheckReportedError"
    /\ \A c \in config.Checkers : Handed(out[c]) /\ task[c] = "done"
    /\ afterAllCalls = 1

(***************************************************************************)
(* C19: a resolve call on an annotation whose body is already wrapped in   *)
(* <strike> ... </strike> leaves the body as it is, and after any number   *)
(* of resolve calls the body on the host is the one the first call left.   *)
(***************************************************************************)
IsWrapped(body) ==
    /\ Len(body) >= 2
    /\ Head(body) = "<strike>"
    /\ body[Len(body)] = "</strike>"

C19_ResolveIdempotent ==
    value # NoValue =>
        /\ value.thread.n >= 1 =>
               /\ hostThread[1] = value.thread.once
               /\ IsWrapped(args.thread) => hostThread[1] = args.thread
        /\ value.review.n >= 1 =>
               /\ hostReview[1] = value.review.once
               /\ IsWrapped(args.review) => hostReview[1] = args.review

\* a thread comment and a line comment, both resolved twice: each is wrapped
\* once
C19_Witness ==
    /\ value # NoValue
    /\ args.thread = <<"x">> /\ args.review = <<"x", "x">>
    /\ value.thread.n = 2 /\ value.review.n = 2
    /\ hostThread[1] = <<"<strike>", "x", "</strike>">>
    /\ hostReview[1] = <<"<strike>", "x", "x", "</strike>">>

(***************************************************************************)
(* C20: when Format goes through a diagnostic whose fingerprint matches an *)
(* annotation of the index that is struck through, it calls the client's   *)
(* unresolve operation of the annotation's kind for it.                    *)
(***************************************************************************)
UnresolveCall(comment) ==
    IF comment.Type = FileComment THEN "UnresolveFileComment" ELSE "UnresolveComment"

C20_UnresolveOnReappearance ==
    \A c \in config.Checkers : \A i \in Processed(c) :
        LET fp == fingerprint(c, out[c].Comments[i]) IN
        (fp \in DOMAIN existingComments /\ IsWrapped(existingComments[fp].Body)) =>
            \E j \in 1..Len(calls[c]) :
                /\ calls[c][j].call = UnresolveCall(existingComments[fp])
                /\ calls[c][j].at = i

(***************************************************************************)
(* C21: in one run AfterAll makes at most one resolve call for an          *)
(* annotation, also when the annotation's body carries several             *)
(* fingerprints and the index holds it under several keys.                 *)
(***************************************************************************)
C21_OneResolvePerAnnotation ==
    \A r1, r2 \in resolveCalls :
        (r1.Type = r2.Type /\ r1.Id = r2.Id) => r1 = r2

(***************************************************************************)
(* C22: once BeforeAll has returned, the index holds no annotation whose   *)
(* body starts with <strike>, whether the annotation was fetched with      *)
(* Comments or with ReviewComments.                                        *)
(***************************************************************************)
C22_StruckNotIndexed ==
    pc # "start" =>
        \A k \in DOMAIN existingComments :
            ~HasPrefix(existingComments[k].Body, <<"<strike>">>)

(***************************************************************************)
(* C23: Format executions are mutually exclusive: at no time are two       *)
(* checkers' goroutines inside Format, where the index is read and         *)
(* written and Comment and FileComment are called.                         *)
(***************************************************************************)
InFormat == {c \in config.Checkers : task[c] = "format"}

C23_FormatExclusive ==
    Cardinality(InFormat) <= 1

(***************************************************************************)
(* C24: the flag is read and written under exclusive access: at no time    *)
(* are two checkers' goroutines between their read of hasCheckErrors and   *)
(* their write of it.                                                      *)
(***************************************************************************)
InFlagAccess == {c \in config.Checkers : task[c] = "scan"}

C24_FlagExclusive ==
    Cardinality(InFlagAccess) <= 1

(***************************************************************************)
(* C25: once every goroutine has finished, the flag is set if some         *)
(* checker's output parsed as a Result holding a comment of severity       *)
(* Error, whether or not that Result's Failure is empty.                   *)
(***************************************************************************)
HoldsError(c) ==
    /\ out[c].kind = "result"
    /\ \E i \in 1..Len(out[c].Comments) :
           out[c].Comments[i].Severity = SeverityError

C25_FlagIgnoresFailure ==
    Waited =>
        ((\E c \in config.Checkers : HoldsError(c)) => hasCheckErrors)

(***************************************************************************)
(* C26: once every goroutine has finished, Format has been called exactly  *)
(* once for each checker whose output parsed as a Result, and never for a  *)
(* checker that failed to run or whose output did not parse.               *)
(***************************************************************************)
C26_FormatOncePerResult ==
    Waited =>
        \A c \in config.Checkers :
            /\ out[c].kind = "result" => formatCalls[c] = 1
            /\ out[c].kind \in {"runfail", "badjson"} => formatCalls[c] = 0

(***************************************************************************)
(* C27: the post-hook leaves the error collection and the value Perform    *)
(* returns as they were, whichever resolve calls fail; it makes a resolve  *)
(* call for every stale entry of the index, also after a call that         *)
(* failed, and every call that got through has struck its annotation.      *)
(***************************************************************************)
Struck(r, thread, review) ==
    LET body == StruckBody(existingComments[r.key].Body) IN
    IF r.Type = FileComment THEN review[r.Id] = body ELSE thread[r.Id] = body

C27_PostHookErrorsIgnored ==
    [][pc = "deferred" =>
          /\ multiErr' = multiErr
          /\ ret' = ret
          /\ \A k \in StaleKeys(existingComments) :
                 \E r \in resolveCalls' : r.key = k
          /\ \A r \in resolveCalls' : r.through => Struck(r, hostThread', hostReview')]_vars

C27_Witness ==
    /\ Returned
    /\ \E r1, r2 \in resolveCalls :
           /\ ~r1.through
           /\ r2.through
           /\ <<r1.Type, r1.Id>> # <<r2.Type, r2.Id>>
           /\ Struck(r2, hostThread, hostReview)
    /\ ret = Outcome(multiErr, hasCheckErrors)

(***************************************************************************)
(* C28: from the return of BeforeAll to the return of AfterAll no step     *)
(* adds or removes a key of the index or changes the annotation stored     *)
(* under a key (its stale flag apart), and the fingerprint of an           *)
(* annotation posted in the run is not a key of the index.                 *)
(***************************************************************************)
SameAnnotation(e1, e2) ==
    e1.Type = e2.Type /\ e1.Id = e2.Id /\ e1.Body = e2.Body

C28_IndexFrame ==
    [][(HookSucceeded /\ pc \in {"running", "deferred"}) =>
          /\ DOMAIN existingComments' = DOMAIN existingComments
          /\ \A k \in DOMAIN existingComments :
                 SameAnnotation(existingComments'[k], existingComments[k])
          /\ \A fp \in DOMAIN postedFps' : fp \notin DOMAIN existingComments']_vars

C28_Witness ==
    /\ Returned
    /\ afterAllCalls = 1
    /\ DOMAIN postedFps # {}
    /\ DOMAIN postedFps \cap DOMAIN existingComments = {}
    /\ \E fp \in HandedFps(out) : fp \in DOMAIN existingComments

(***************************************************************************)
(* C29: when BeforeAll has returned, every entry of the index is an        *)
(* annotation as this run fetched it: the host holds an annotation of the  *)
(* entry's kind and id with the entry's body. An entry kept from an        *)
(* earlier run of the same Formatter, whose annotation has been struck     *)
(* since, is not in the index.                                             *)
(***************************************************************************)
AtBeforeAllReturn ==
    /\ HookSucceeded
    /\ pc = "running"
    /\ \A c \in config.Checkers : task[c] = "spawned"

FetchedNow(e) ==
    LET stored == IF e.Type = FileComment THEN hostReview ELSE hostThread IN
    e.Id \in 1..Len(stored) /\ stored[e.Id] = e.Body

C29_NoEntryLeftOver ==
    AtBeforeAllReturn =>
        \A k \in DOMAIN existingComments : FetchedNow(existingComments[k])

(***************************************************************************)
(* C30: the markers BeforeAll's expression finds in the body Format        *)
(* renders for a comment are the comment's fingerprint and nothing else.   *)
(***************************************************************************)
C30_MarkerRoundTrip ==
    (value # NoValue /\ "found" \in DOMAIN value) =>
        {value.found[i] : i \in 1..Len(value.found)} = {value.fp}

(***************************************************************************)
(* C31: with a Concurrency of zero or less every goroutine that has not    *)
(* started its checker may start it, whatever the number of checkers in    *)
(* flight; Perform may go on once all goroutines are done, and it has then *)
(* launched every configured checker.                                      *)
(***************************************************************************)
C31_NonPositiveUnbounded ==
    (config.Concurrency <= 0 /\ HookSucceeded) =>
        /\ \A c \in config.Checkers :
               (pc = "running" /\ task[c] = "spawned") => ENABLED Launch(c)
        /\ (pc = "running" /\ AllDone) => ENABLED WaitReturn
        /\ Waited => \A c \in config.Checkers : launched[c] = 1

C31_Witness ==
    /\ config.Concurrency <= 0
    /\ Cardinality(config.Checkers) > 1
    /\ InFlight = config.Checkers

(***************************************************************************)
(* C32: if no checker process stays in flight for ever, Perform returns;   *)
(* and as long as a checker process is in flight Perform has not           *)
(* returned, so a process that never exits keeps Perform from returning.   *)
(***************************************************************************)
C32_Termination ==
    /\ []<>(InFlight = {}) => <>Returned
    /\ [](InFlight # {} => pc = "running")

C32_Witness ==
    /\ Returned
    /\ HookSucceeded
    /\ \A c \in config.Checkers : launched[c] = 1
    /\ Cardinality(config.Checkers) > 1

(***************************************************************************)
(* C33: the Import stays what it was when Perform was entered; importJSON  *)
(* is its serialization, made before any checker is launched; and every    *)
(* checker that was launched was given exactly those bytes.                *)
(***************************************************************************)
C33_ImportReadOnly ==
    /\ Import = TheImport
    /\ pc # "start" => importJSON = ImportJSON(Import)
    /\ \A c \in config.Checkers :
           launched[c] > 0 => (importJSON # NoJSON /\ stdin[c] = importJSON)

C33_Witness ==
    /\ Returned
    /\ Cardinality(config.Checkers) > 1
    /\ \A c \in config.Checkers : launched[c] = 1 /\ stdin[c] = ImportJSON(TheImport)
    /\ \E c \in config.Checkers : formatCalls[c] = 1 /\ newCalls > 0

(***************************************************************************)
(* C34: the step in which a FileComment or Comment call of a checker's     *)
(* Format fails adds that one error, as it is, to the error collection,    *)
(* writes nothing to the host and ends the Format call; and after it no    *)
(* further call to the host is made for that checker's Result.             *)
(***************************************************************************)
FormatError(c) == [kind |-> "format", name |-> <<>>, by |-> c]

C34_FormatStopsAtFailure ==
    [][\A c \in config.Checkers :
          /\ formatErr[c] => calls'[c] = calls[c]
          /\ (~formatErr[c] /\ formatErr'[c]) =>
                 /\ Len(calls'[c]) = Len(calls[c]) + 1
                 /\ multiErr' = Append(multiErr, FormatError(c))
                 /\ task'[c] = "done"
                 /\ hostThread' = hostThread
                 /\ hostReview' = hostReview]_vars

\* the first of two line comments could not be posted: one call, no second
\* FileComment call and no Comment call
C34_Witness ==
    /\ Returned
    /\ \E c \in config.Checkers :
           /\ formatErr[c]
           /\ Len(out[c].Comments) = 2
           /\ IsFileComment(out[c].Comments[1])
           /\ Len(calls[c]) = 1
           /\ calls[c][1].call = "FileComment"
           /\ calls[c][1].at = 1
    /\ \E d \in config.Checkers :
           /\ formatErr[d]
           /\ calls[d][Len(calls[d])].call = "Comment"

(***************************************************************************)
(* C35: the check command exits with status 0 only when Perform returned   *)
(* nil; the wrapped error of a failed BeforeAll gives another status too.  *)
(***************************************************************************)
C35_ZeroOnlyOnNil ==
    exitCode = 0 => ret = "nil"

(***************************************************************************)
(* C36: when AfterAll runs and the host holds two annotations of one kind, *)
(* neither of them struck, that carry one fingerprint which no diagnostic  *)
(* handed to Format in this run has, AfterAll makes a resolve call for     *)
(* each of the two.                                                        *)
(***************************************************************************)
Stored(ty) == IF ty = FileComment THEN hostReview ELSE hostThread

SharedUnmatched(ty, i, j) ==
    /\ i # j
    /\ ~HasPrefix(Stored(ty)[i], <<"<strike>">>)
    /\ ~HasPrefix(Stored(ty)[j], <<"<strike>">>)
    /\ \E fp \in Range(FindAllFingerprints(Stored(ty)[i])) :
           /\ fp \in Range(FindAllFingerprints(Stored(ty)[j]))
           /\ fp \notin HandedFps(out)

C36_SharedFingerprintResolved ==
    [][(pc = "deferred" /\ HookSucceeded) =>
          \A ty \in {ReviewComment, FileComment} :
              \A i, j \in 1..Len(Stored(ty)) :
                  SharedUnmatched(ty, i, j) =>
                      \E r \in resolveCalls' : r.Type = ty /\ r.Id = i]_vars

(***************************************************************************)
(* C37: in a run whose BeforeAll returned an error AfterAll is not called, *)
(* no Comment, FileComment, ResolveComment or ResolveFileComment call is   *)
(* made, and no annotation on the host is struck.                          *)
(***************************************************************************)
NoneStruck(stored) ==
    \A i \in 1..Len(stored) : ~HasPrefix(stored[i], <<"<strike>">>)

C37_FailedPreHookWritesNothing ==
    beforeAllErr # "none" =>
        /\ afterAllCalls = 0
        /\ newCalls = 0
        /\ resolveCalls = {}
        /\ \A c \in config.Checkers : calls[c] = <<>>
        /\ NoneStruck(hostThread) /\ NoneStruck(hostReview)

\* ReviewComments failed after the thread comments were indexed: the index
\* holds a stale entry, and the command has exited without a resolve call
C37_Witness ==
    /\ beforeAllErr = "ReviewComments"
    /\ StaleKeys(existingComments) # {}
    /\ exitCode # NoExit
    /\ resolveCalls = {}
    /\ afterAllCalls = 0

(***************************************************************************)
(* C38: when a Result handed to Format holds a diagnostic of severity      *)
(* Error whose fingerprint is in the index, so that nothing is posted for  *)
(* it, the flag is set all the same once the goroutines are done, and a    *)
(* run without errors returns ErrCheckReportedError.                       *)
(***************************************************************************)
MatchedError(c) ==
    /\ Handed(out[c])
    /\ \E i \in 1..Len(out[c].Comments) :
           /\ out[c].Comments[i].Severity = SeverityError
           /\ fingerprint(c, out[c].Comments[i]) \in DOMAIN existingComments

C38_FindingsDespiteDedup ==
    (Waited /\ \E c \in config.Checkers : MatchedError(c)) =>
        /\ hasCheckErrors
        /\ multiErr = <<>> => ret = "ErrCheckReportedError"

\* the only Error diagnostic of the run was matched, no call to the host was
\* made for a new annotation, and the command exited with status 1
C38_Witness ==
    /\ exitCode = 1
    /\ ret = "ErrCheckReportedError"
    /\ newCalls = 0
    /\ \E c \in config.Checkers : MatchedError(c)

(***************************************************************************)
(* C39: two comments that differ in checker name, in scope (top-level or   *)
(* line) or, when they are line comments, in file, line or side, have      *)
(* different fingerprints, also when a name or a path holds a ':'.         *)
(***************************************************************************)
Identity(source, comment) ==
    IF IsFileComment(comment)
    THEN <<source, "line", comment.File, comment.Line, comment.Side>>
    ELSE <<source, "top", <<>>, 0, <<>>>>

C39_FingerprintInjective ==
    (value # NoValue /\ "source1" \in DOMAIN args) =>
        (Identity(args.source1, args.x) # Identity(args.source2, args.y)
            => value.x # value.y)

====
